---- MODULE Spec2Model ----
(***************************************************************************)
(* A model of console_game_engine (src/console_game_engine/__init__.py):   *)
(* the _Board, the _Player entities and the ConsoleGame frame loop.        *)
(*                                                                         *)
(* Python values are modelled as follows.                                  *)
(*   - a str is a tuple of one-character strings, so that `key in s` on a  *)
(*     str is the substring test Python performs;                          *)
(*   - a list of lists (a grid) is a tuple of tuples; the three list       *)
(*     objects the program handles (the caller's argument, the baseline    *)
(*     made by deepcopy, the working copy) live in `heap` under the        *)
(*     references "arg", "copy" and "work", so that aliasing is visible;   *)
(*   - a position pos is a pair; the source's pos[0] is pos[1] here and    *)
(*     the source's pos[1] is pos[2] here (TLA+ tuples start at 1).        *)
(***************************************************************************)
EXTENDS Integers, Sequences, FiniteSets, TLC

\* Bounds of the model.
MaxH == 2
MaxW == 2

VARIABLES
    heap,             \* the list objects: [arg, copy, work] -> grid
    stage,            \* "new" | "game" | "failed": ConsoleGame(board) not yet called / built / raised
    board,            \* the _Board object: [board, x, y, _copy], board and _copy are references
    Players,          \* entities["Players"], in insertion order
    _active,          \* ConsoleGame._active
    smart_updating,   \* ConsoleGame.smart_updating
    interval_updating,\* ConsoleGame.interval_updating: 0 is False, 1 is True, n > 1 an int given for it
    interval,         \* ConsoleGame.interval
    _pending_update,  \* ConsoleGame._pending_update
    preupdate,        \* TRUE iff a preupdate hook is configured
    postupdate,       \* TRUE iff a postupdate hook is configured
    on_key,           \* TRUE iff an on_key hook is configured
    delay,            \* ConsoleGame.delay
    pc,               \* position of the thread: in the caller, or at a line of start()
    iteration,        \* the local `iteration` of start()
    key,              \* the local `key` of start() while it is live
    calls,            \* API calls made so far by the hook that is running
    given,            \* history: the grid value passed to the constructor
    since,            \* history: what marked the game dirty since the last completed redraw,
                      \* whether quit was the last to set _active, and what quit found when
                      \* a hook of this iteration called it
    last              \* history: the last operation, with what it saw and what it did

vars == << heap, stage, board, Players, _active, smart_updating, interval_updating,
           interval, _pending_update, preupdate, postupdate, on_key, delay, pc,
           iteration, key, calls, given, since, last >>

loopVars == << _active, smart_updating, interval_updating, interval, preupdate,
               postupdate, on_key, delay, iteration, key >>

----------------------------------------------------------------------------
\* Grids

\* The text of cell (r, c) of the grids the caller builds.
Cell(r, c) == IF (r + c) % 2 = 0 THEN "." ELSE "#"

\* The grid whose r-th row has lens[r] cells.
Grid(lens) == [r \in 1..Len(lens) |-> [c \in 1..lens[r] |-> Cell(r, c)]]

\* The h x w grid.
Rect(h, w) == Grid([r \in 1..h |-> w])

\* The h x w grid with row s one cell short.
Ragged(h, w, s) == Grid([r \in 1..h |-> IF r = s THEN w - 1 ELSE w])

RectBoards == {Rect(h, w) : h \in 1..MaxH, w \in 1..MaxW}

RaggedBoards == UNION {{Ragged(h, w, s) : s \in 1..h} : h \in 2..MaxH, w \in 2..MaxW}

\* The caller's boards: the rectangular ones up to MaxH x MaxW, the ones
\* with one short row, and the empty list.
Boards == RectBoards \cup RaggedBoards \cup {<< >>}

Rectangular(g) == \A r \in 1..Len(g) : Len(g[r]) = Len(g[1])

\* Python's list index: the 1-based place of index i in a list of length n,
\* negative indices counting from the end; 0 stands for IndexError.
PyIndex(n, i) ==
    IF 0 <= i /\ i < n THEN i + 1
    ELSE IF i < 0 /\ -n <= i THEN n + i + 1
    ELSE 0

\* _Board.__init__ raises IndexError at board[0] on an empty list.
BoardInitRaises(g) == Len(g) = 0

\* copy.deepcopy of the list object at reference ref: a fresh object, placed
\* at `to`, with equal contents. Result: the heap and the new reference.
Deepcopy(h, ref, to) == [heap |-> [h EXCEPT ![to] = h[ref]], ref |-> to]

\* A broken deepcopy: the same object again.
DeepcopyAlias(h, ref, to) == [heap |-> h, ref |-> ref]

\* self._copy = copy.deepcopy(self.board)
BaselineOf(h) == Deepcopy(h, "arg", "copy")

\* _Board._original(): copy.deepcopy(self._copy). The working copy it
\* replaces is garbage once board.board is rebound, so its place is reused.
OriginalAlias(h, b) == DeepcopyAlias(h, b._copy, "work")

_original(h, b) == Deepcopy(h, b._copy, "work")

\* _Board.__init__
BoardInit(h) ==
    LET c == BaselineOf(h)
    IN  [heap  |-> c.heap,
         board |-> [board |-> "arg",
                    x     |-> Len(h["arg"]) - 1,
                    y     |-> Len(h["arg"][1]) - 1,
                    _copy |-> c.ref]]

----------------------------------------------------------------------------
\* Keys and players

K_up    == << "u", "p" >>
K_down  == << "d", "o", "w", "n" >>
K_left  == << "l", "e", "f", "t" >>
K_right == << "r", "i", "g", "h", "t" >>
K_NULL  == << "N", "U", "L", "L" >>

\* What _get_input can return: the four directions, NULL, or one character.
Keys == {K_up, K_down, K_left, K_right, K_NULL, << "l" >>, << "w" >>, << "x" >>}

StrBind(s) == [kind |-> "str", v |-> s]
SetBind(S) == [kind |-> "set", v |-> S]

\* add_player's default bindings, and bindings a caller passes: single
\* characters, sets of symbols, and one symbol bound to two directions.
DefaultKeys == [up |-> StrBind(K_up), left |-> StrBind(K_left),
                down |-> StrBind(K_down), right |-> StrBind(K_right)]

SetKeys == [up |-> SetBind({<< "w" >>, K_up}), left |-> SetBind({<< "a" >>, K_left}),
            down |-> SetBind({<< "s" >>, K_down}), right |-> SetBind({<< "d" >>, K_right})]

ClashKeys == [up |-> StrBind(<< "w" >>), left |-> StrBind(<< "w" >>),
              down |-> StrBind(<< "x" >>), right |-> StrBind(<< "x" >>)]

\* Python's `k in s` for a str s: k occurs in s as a substring.
Substring(k, s) ==
    \E i \in 0..(Len(s) - Len(k)) : SubSeq(s, i + 1, i + Len(k)) = k

\* Python's `key in binding`.
In(k, b) ==
    IF b.kind = "str" THEN Substring(k, b.v) ELSE k \in b.v

\* _Player.__init__
Player(character, start_pos, mov_u, mov_l, mov_d, mov_r) ==
    [char |-> character, pos |-> start_pos,
     left |-> mov_l, right |-> mov_r, up |-> mov_u, down |-> mov_d]

\* _DynamicEntity._change_position
_change_position(p, x, y) == [p EXCEPT !.pos = << p.pos[1] + x, p.pos[2] + y >>]

\* change_position with the directions tested in the order up, left, down,
\* right.
ChangePositionUpFirst(p, k) ==
    IF In(k, p.up) THEN [player |-> _change_position(p, 0, -1), res |-> 0]
    ELSE IF In(k, p.left) THEN [player |-> _change_position(p, -1, 0), res |-> 0]
    ELSE IF In(k, p.down) THEN [player |-> _change_position(p, 0, 1), res |-> 0]
    ELSE IF In(k, p.right) THEN [player |-> _change_position(p, 1, 0), res |-> 0]
    ELSE [player |-> p, res |-> -1]

\* _Player.change_position: the player afterwards and the value returned.
change_position(p, k) ==
    IF In(k, p.left) THEN [player |-> _change_position(p, -1, 0), res |-> 0]
    ELSE IF In(k, p.right) THEN [player |-> _change_position(p, 1, 0), res |-> 0]
    ELSE IF In(k, p.up) THEN [player |-> _change_position(p, 0, -1), res |-> 0]
    ELSE IF In(k, p.down) THEN [player |-> _change_position(p, 0, 1), res |-> 0]
    ELSE [player |-> p, res |-> -1]

----------------------------------------------------------------------------
\* The redraw

\* "IndexError Protection": the position after the elif chain. player_x is
\* the source's pos[1] and indexes the rows, player_y is the source's
\* pos[0] and indexes the cells of a row.
ClampColumnFirst(b, pos) ==
    LET player_x == pos[2]
        player_y == pos[1]
    IN  IF player_y > b.y THEN << player_y - (player_y - b.y), player_x >>
        ELSE IF player_x > b.x THEN << player_y, player_x - (player_x - b.x) >>
        ELSE IF player_y < 0 THEN << 0, player_x >>
        ELSE IF player_x < 0 THEN << player_y, 0 >>
        ELSE pos

Clamp(b, pos) ==
    LET player_x == pos[2]
        player_y == pos[1]
    IN  IF player_x > b.x THEN << player_y, player_x - (player_x - b.x) >>
        ELSE IF player_y > b.y THEN << player_y - (player_y - b.y), player_x >>
        ELSE IF player_x < 0 THEN << player_y, 0 >>
        ELSE IF player_y < 0 THEN << 0, player_x >>
        ELSE pos

\* The row and the cell that self.board.board[player_x][player_y] names in
\* grid g, as 1-based places; 0 where Python raises IndexError.
RowPlace(g, pos) == PyIndex(Len(g), pos[2])

CellPlace(g, pos) ==
    IF RowPlace(g, pos) = 0 THEN 0 ELSE PyIndex(Len(g[RowPlace(g, pos)]), pos[1])

RECURSIVE DrawPlayersLastFirst(_, _, _, _, _)
DrawPlayersLastFirst(b, g, ps, drawn, i) ==
    IF i > Len(ps) THEN [grid |-> g, players |-> ps, drawn |-> drawn, err |-> "none"]
    ELSE LET j   == Len(ps) - i + 1
             pos == Clamp(b, ps[j].pos)
             ps2 == [ps EXCEPT ![j].pos = pos]
             r   == RowPlace(g, pos)
             c   == CellPlace(g, pos)
         IN  IF r = 0 \/ c = 0
             THEN [grid |-> g, players |-> ps2, drawn |-> drawn, err |-> "IndexError"]
             ELSE DrawPlayersLastFirst(b, [g EXCEPT ![r][c] = ps[j].char], ps2,
                                       Append(drawn, << r, c >>), i + 1)

RECURSIVE DrawPlayers(_, _, _, _, _)
\* The loop over entities["Players"] from player i on: each is clamped, the
\* clamped position is stored, the glyph is written; an IndexError ends it.
\* drawn lists the places written, in order.
DrawPlayers(b, g, ps, drawn, i) ==
    IF i > Len(ps) THEN [grid |-> g, players |-> ps, drawn |-> drawn, err |-> "none"]
    ELSE LET pos == Clamp(b, ps[i].pos)
             ps2 == [ps EXCEPT ![i].pos = pos]
             r   == RowPlace(g, pos)
             c   == CellPlace(g, pos)
         IN  IF r = 0 \/ c = 0
             THEN [grid |-> g, players |-> ps2, drawn |-> drawn, err |-> "IndexError"]
             ELSE DrawPlayers(b, [g EXCEPT ![r][c] = ps[i].char], ps2,
                              Append(drawn, << r, c >>), i + 1)

\* ConsoleGame._update_and_display_board
_update_and_display_board(h, b, ps) ==
    LET o  == _original(h, b)
        b2 == [b EXCEPT !.board = o.ref]
        d  == DrawPlayers(b2, o.heap[o.ref], ps, << >>, 1)
    IN  [heap    |-> [o.heap EXCEPT ![o.ref] = d.grid],
         board   |-> b2,
         players |-> d.players,
         drawn   |-> d.drawn,
         err     |-> d.err]

\* The rows joined by newlines, none after the last.
RECURSIVE JoinBetween(_)
JoinBetween(g) ==
    IF Len(g) = 0 THEN << >>
    ELSE IF Len(g) = 1 THEN Head(g)
    ELSE Head(g) \o << "\n" >> \o JoinBetween(Tail(g))

\* _Board.__str__: one character per cell of the text.
RECURSIVE Join(_)
Join(g) == IF Len(g) = 0 THEN << >> ELSE Head(g) \o << "\n" >> \o Join(Tail(g))

----------------------------------------------------------------------------
\* Who is running

HookPcs == {"preupdate", "on_key", "postupdate"}

\* API calls a single hook invocation makes at most.
MaxHookCalls == 2

\* Iterations of start() the model follows.
MaxIter == 3

\* The largest int passed as interval_updating.
MaxInterval == 2

\* User code is running: the caller of the API, or one of the hooks, which
\* may call the API while it has calls left.
InUser == pc = "caller" \/ (pc \in HookPcs /\ calls < MaxHookCalls)

Called == IF pc \in HookPcs THEN calls + 1 ELSE calls

NoOp == [op |-> "none"]

\* The positions the model places and moves players on: up to two cells
\* beyond the board on every side.
PosBox(b) == ((-(b.y + 2))..(b.y + 2)) \X ((-(b.x + 2))..(b.x + 2))

\* The coordinates tried around an axis whose largest index is m: before the
\* start by one and by more than the length, the two ends, and past the end
\* by one and by two.
Around(m) == {-(m + 2), -1, 0, m, m + 1, m + 2}

\* The places players are put at, around board b.
Places(b) == Around(b.y) \X Around(b.x)

\* The characters of the players, in the order they are added.
Glyphs == << "A", "B" >>

----------------------------------------------------------------------------
\* The API

\* ConsoleGame.__init__
Construct ==
    /\ stage = "new"
    /\ pc = "caller"
    /\ given' = heap["arg"]
    /\ IF BoardInitRaises(heap["arg"])
       THEN /\ stage' = "failed"
            /\ UNCHANGED << heap, board >>
       ELSE /\ stage' = "game"
            /\ heap' = BoardInit(heap).heap
            /\ board' = BoardInit(heap).board
    /\ Players' = << >>
    /\ _active' = FALSE
    /\ last' = [op |-> "construct"]
    /\ UNCHANGED << smart_updating, interval_updating, interval, _pending_update,
                    preupdate, postupdate, on_key, delay, pc, iteration, key,
                    calls, since >>

\* The caller still holds the list it passed and writes a cell of it.
CallerWritesBoard ==
    /\ stage = "game"
    /\ pc = "caller"
    /\ heap["arg"][1][1] # "@"
    /\ heap' = [heap EXCEPT !["arg"][1][1] = "@"]
    /\ last' = NoOp
    /\ UNCHANGED << stage, board, Players, _pending_update, pc, calls, given,
                    since >>
    /\ UNCHANGED loopVars

\* ConsoleGame.add_player
add_player(glyphs, positions, bindings) ==
    /\ stage = "game"
    /\ InUser
    /\ Len(Players) < Len(glyphs)
    /\ \E start_pos \in positions, b \in bindings :
          Players' = Append(Players,
              Player(glyphs[Len(Players) + 1], start_pos, b.up, b.left, b.down, b.right))
    /\ calls' = Called
    /\ last' = NoOp
    /\ UNCHANGED << heap, stage, board, _pending_update, pc, given, since >>
    /\ UNCHANGED loopVars

\* self._pending_update after change_player_position returned res.
DirtyOnlyIfMoved(res) == IF res = 0 THEN TRUE ELSE _pending_update

DirtyAfterMove(res) == TRUE

\* ConsoleGame.change_player_position
change_player_position(keys) ==
    /\ stage = "game"
    /\ InUser
    /\ \E i \in 1..Len(Players), k \in keys :
          LET r == change_position(Players[i], k)
          IN  /\ r.player.pos \in PosBox(board)
              /\ Players' = [Players EXCEPT ![i] = r.player]
              /\ _pending_update' = DirtyAfterMove(r.res)
              /\ last' = [op |-> "change_player_position", who |-> i, key |-> k,
                          res |-> r.res, pre |-> Players, was |-> _pending_update]
    /\ since' = [since EXCEPT !.marked = TRUE]
    /\ calls' = Called
    /\ UNCHANGED << heap, stage, board, pc, given >>
    /\ UNCHANGED loopVars

\* One call of ConsoleGame._update_and_display_board.
Redraw ==
    /\ stage = "game"
    /\ pc = "caller"
    /\ LET r == _update_and_display_board(heap, board, Players)
       IN  /\ heap' = r.heap
           /\ board' = r.board
           /\ Players' = r.players
           /\ last' = [op |-> "redraw", pre |-> Players, drawn |-> r.drawn,
                       err |-> r.err, before |-> heap[board.board]]
    /\ UNCHANGED << stage, _pending_update, pc, calls, given, since >>
    /\ UNCHANGED loopVars

\* _Board._original_as_string, called on the game's board: the text of a new
\* _Board made of a copy of the baseline. The copy and the new _Board are
\* garbage when it returns.
_original_as_string ==
    /\ stage = "game"
    /\ pc = "caller"
    /\ LET o == _original(heap, board)
       IN  last' = [op |-> "_original_as_string", text |-> Join(o.heap[o.ref])]
    /\ UNCHANGED << heap, stage, board, Players, _pending_update, pc, calls,
                    given, since >>
    /\ UNCHANGED loopVars

----------------------------------------------------------------------------
\* The state before ConsoleGame(board) is called, the caller holding one of
\* `boards`. The attributes initialize() creates are read by no code before
\* it has run; they start at the values quit() gives them.
InitWith(boards) ==
    /\ heap \in {[arg |-> g, copy |-> << >>, work |-> << >>] : g \in boards}
    /\ stage = "new"
    /\ board = [board |-> "arg", x |-> -1, y |-> -1, _copy |-> "copy"]
    /\ Players = << >>
    /\ _active = FALSE
    /\ smart_updating = FALSE
    /\ interval_updating = 0
    /\ interval = 1
    /\ _pending_update = FALSE
    /\ preupdate = FALSE
    /\ postupdate = FALSE
    /\ on_key = FALSE
    /\ delay = 0
    /\ pc = "caller"
    /\ iteration = 0
    /\ key = << >>
    /\ calls = 0
    /\ given = << >>
    /\ since = [marked |-> FALSE, inited |-> FALSE, stopped |-> FALSE,
                quitIn |-> FALSE, wasSmart |-> FALSE, wasDirty |-> FALSE]
    /\ last = NoOp

----------------------------------------------------------------------------
\* The frame loop

\* ConsoleGame.initialize. The warning and its five-second sleep, given for
\* smart and interval updating together, are recorded in last.warned.
initialize(smart, n, pre, post, onk, d) ==
    /\ stage = "game"
    /\ InUser
    /\ smart_updating' = smart
    /\ interval_updating' = n
    /\ interval' = 1
    /\ _pending_update' = TRUE
    /\ preupdate' = pre
    /\ postupdate' = post
    /\ on_key' = onk
    /\ delay' = d
    /\ _active' = TRUE
    /\ since' = [since EXCEPT !.inited = TRUE, !.stopped = FALSE]
    /\ calls' = Called
    /\ last' = [op |-> "initialize", warned |-> (smart /\ n # 0),
                wasStopped |-> since.stopped]
    /\ UNCHANGED << heap, stage, board, Players, pc, iteration, key, given >>

QuitKeepsHooks ==
    /\ stage = "game"
    /\ InUser
    /\ smart_updating' = FALSE
    /\ interval_updating' = 0
    /\ _pending_update' = FALSE
    /\ delay' = 0
    /\ _active' = FALSE
    /\ calls' = Called
    /\ since' = IF pc \in HookPcs /\ ~since.quitIn
                THEN [since EXCEPT !.stopped = TRUE, !.quitIn = TRUE,
                                   !.wasSmart = smart_updating,
                                   !.wasDirty = _pending_update]
                ELSE [since EXCEPT !.stopped = TRUE]
    /\ last' = [op |-> "quit"]
    /\ UNCHANGED << heap, stage, board, Players, interval, pc, iteration, key,
                    given, preupdate, postupdate, on_key >>

\* ConsoleGame.quit
quit ==
    /\ stage = "game"
    /\ InUser
    /\ smart_updating' = FALSE
    /\ interval_updating' = 0
    /\ _pending_update' = FALSE
    /\ preupdate' = FALSE
    /\ postupdate' = FALSE
    /\ on_key' = FALSE
    /\ delay' = 0
    /\ _active' = FALSE
    /\ calls' = Called
    /\ since' = IF pc \in HookPcs /\ ~since.quitIn
                THEN [since EXCEPT !.stopped = TRUE, !.quitIn = TRUE,
                                   !.wasSmart = smart_updating,
                                   !.wasDirty = _pending_update]
                ELSE [since EXCEPT !.stopped = TRUE]
    /\ last' = [op |-> "quit"]
    /\ UNCHANGED << heap, stage, board, Players, interval, pc, iteration, key,
                    given >>

\* ConsoleGame.start is called: iteration = 0.
start ==
    /\ stage = "game"
    /\ pc = "caller"
    /\ pc' = "while"
    /\ iteration' = 0
    /\ last' = [op |-> "start"]
    /\ UNCHANGED << heap, stage, board, Players, _active, smart_updating,
                    interval_updating, interval, _pending_update, preupdate,
                    postupdate, on_key, delay, key, calls, given, since >>

\* `while self._active:` and, inside, `if self.preupdate: self.preupdate()`.
\* When the loop ends start() returns to the caller.
LoopConditionAlways == TRUE

LoopCondition == _active

While ==
    /\ pc = "while"
    /\ IF LoopCondition
       THEN /\ pc' = IF preupdate THEN "preupdate" ELSE "kbhit"
            /\ UNCHANGED iteration
            /\ last' = [op |-> "while", entered |-> TRUE, it |-> iteration,
                        quit |-> since.quitIn]
       ELSE /\ pc' = "caller"
            /\ iteration' = 0
            /\ last' = [op |-> "while", entered |-> FALSE, it |-> iteration,
                        quit |-> since.quitIn]
    /\ calls' = 0
    /\ since' = [since EXCEPT !.quitIn = FALSE, !.wasSmart = FALSE,
                              !.wasDirty = FALSE]
    /\ UNCHANGED << heap, stage, board, Players, _active, smart_updating,
                    interval_updating, interval, _pending_update, preupdate,
                    postupdate, on_key, delay, key, given >>

\* The statement a hook returns to: the one that follows its call.
AfterHookPostFirst(hook) ==
    CASE hook = "preupdate" -> "sleep"
      [] hook = "on_key" -> "update"
      [] hook = "postupdate" -> "kbhit"

AfterHook(hook) ==
    CASE hook = "preupdate" -> "kbhit"
      [] hook = "on_key" -> "update"
      [] hook = "postupdate" -> "sleep"

\* The hook that is running returns.
HookReturn ==
    /\ pc \in HookPcs
    /\ pc' = AfterHook(pc)
    /\ key' = << >>
    /\ calls' = 0
    /\ last' = [op |-> "return", from |-> pc]
    /\ UNCHANGED << heap, stage, board, Players, _active, smart_updating,
                    interval_updating, interval, _pending_update, preupdate,
                    postupdate, on_key, delay, iteration, given, since >>

\* The bytes msvcrt.getch delivers: the sentinel, the four arrow scan codes,
\* another scan code, four letters, and two bytes that are not ASCII.
Sentinel == 224
Bytes == {Sentinel, 72, 80, 77, 75, 1, 97, 108, 119, 120, 200, 255}

\* bytes.decode() of one byte below 128.
Chr == [b \in {72, 80, 77, 75, 1, 97, 108, 119, 120} |->
          CASE b = 72 -> "H" [] b = 80 -> "P" [] b = 77 -> "M" [] b = 75 -> "K"
            [] b = 1 -> "SOH" [] b = 97 -> "a" [] b = 108 -> "l"
            [] b = 119 -> "w" [] b = 120 -> "x"]

\* ConsoleGame._get_input on the bytes first and, if it is read, second.
_get_input(first, second) ==
    IF first = Sentinel
    THEN [read |-> 2, err |-> "none",
          key |-> CASE second = 72 -> K_up
                    [] second = 80 -> K_down
                    [] second = 77 -> K_right
                    [] second = 75 -> K_left
                    [] OTHER -> K_NULL]
    ELSE IF first < 128
         THEN [read |-> 1, err |-> "none", key |-> << Chr[first] >>]
         ELSE [read |-> 1, err |-> "UnicodeDecodeError", key |-> << >>]

\* `if msvcrt.kbhit():` with the read of the key and the call of on_key; the
\* bytes that wait are drawn from bytes.
Kbhit(bytes) ==
    /\ pc = "kbhit"
    /\ \E waiting \in BOOLEAN :
          IF waiting
          THEN \E first \in bytes, second \in bytes :
                  LET r == _get_input(first, second)
                  IN  /\ pc' = IF r.err # "none" THEN "raised"
                               ELSE IF on_key THEN "on_key" ELSE "update"
                      /\ key' = IF r.err = "none" /\ on_key THEN r.key ELSE << >>
                      /\ last' = [op |-> "kbhit", waiting |-> TRUE, read |-> r.read,
                                  bytes |-> IF r.read = 2 THEN << first, second >>
                                            ELSE << first >>,
                                  key |-> r.key, err |-> r.err, hook |-> on_key]
          ELSE /\ pc' = "update"
               /\ key' = << >>
               /\ last' = [op |-> "kbhit", waiting |-> FALSE, read |-> 0,
                           bytes |-> << >>, key |-> << >>, err |-> "none",
                           hook |-> FALSE]
    /\ calls' = 0
    /\ UNCHANGED << heap, stage, board, Players, _active, smart_updating,
                    interval_updating, interval, _pending_update, preupdate,
                    postupdate, on_key, delay, iteration, given, since >>

ShouldRedrawIntervalFirst ==
    IF interval_updating # 0 THEN iteration % interval = 0
    ELSE IF smart_updating THEN _pending_update
    ELSE TRUE

\* The redraw decision of start(): whether this iteration redraws.
ShouldRedraw ==
    IF smart_updating THEN _pending_update
    ELSE IF interval_updating # 0 THEN iteration % interval = 0
    ELSE TRUE

\* self._pending_update after the redraw of a smart-updating iteration.
PendingKept == _pending_update

PendingAfterRedraw == FALSE

\* "Board updating using smart and interval updating", then
\* `if self.postupdate: self.postupdate()`.
Update ==
    /\ pc = "update"
    /\ LET r == _update_and_display_board(heap, board, Players)
           seen == [op |-> "update", it |-> iteration, smart |-> smart_updating,
                    n |-> interval_updating, pending |-> _pending_update,
                    marked |-> since.marked, inited |-> since.inited,
                    quit |-> since.quitIn, wasSmart |-> since.wasSmart,
                    wasDirty |-> since.wasDirty,
                    pre |-> Players]
       IN  IF ShouldRedraw
           THEN /\ heap' = r.heap
                /\ board' = r.board
                /\ Players' = r.players
                /\ last' = seen @@ [redrew |-> TRUE, drawn |-> r.drawn, err |-> r.err]
                /\ IF r.err = "none"
                   THEN /\ pc' = IF postupdate THEN "postupdate" ELSE "sleep"
                        /\ _pending_update' =
                               IF smart_updating THEN PendingAfterRedraw
                               ELSE _pending_update
                        /\ since' = [since EXCEPT !.marked = FALSE,
                                                  !.inited = FALSE]
                   ELSE /\ pc' = "raised"
                        /\ UNCHANGED << _pending_update, since >>
           ELSE /\ pc' = IF postupdate THEN "postupdate" ELSE "sleep"
                /\ last' = seen @@ [redrew |-> FALSE, drawn |-> << >>, err |-> "none"]
                /\ UNCHANGED << heap, board, Players, _pending_update, since >>
    /\ calls' = 0
    /\ UNCHANGED << stage, _active, smart_updating, interval_updating, interval,
                    preupdate, postupdate, on_key, delay, iteration, key, given >>

\* time.sleep(self.delay)
Sleep ==
    /\ pc = "sleep"
    /\ pc' = "incr"
    /\ last' = [op |-> "sleep", delay |-> delay]
    /\ UNCHANGED << heap, stage, board, Players, _active, smart_updating,
                    interval_updating, interval, _pending_update, preupdate,
                    postupdate, on_key, delay, iteration, key, calls, given,
                    since >>

\* iteration+=1, and back to the loop condition.
Increment ==
    /\ pc = "incr"
    /\ iteration < MaxIter
    /\ iteration' = iteration + 1
    /\ pc' = "while"
    /\ last' = [op |-> "incr"]
    /\ UNCHANGED << heap, stage, board, Players, _active, smart_updating,
                    interval_updating, interval, _pending_update, preupdate,
                    postupdate, on_key, delay, key, calls, given, since >>

\* The game the loop is followed on: one row of two cells, one player that
\* starts on it and is moved up or not at all.
LoopBoards == {Rect(1, 2)}

LoopGlyphs == << "A" >>

LoopKeys == {K_up, << "x" >>}

\* The sentinel, a byte that is an arrow's scan code after it and a letter on
\* its own, one that is no arrow's scan code, and one that is not ASCII.
LoopBytes == {Sentinel, 72, 1, 200}

Init == InitWith(LoopBoards)

Next ==
    \/ Construct
    \/ add_player(LoopGlyphs, {<< 0, 0 >>}, {DefaultKeys})
    \/ change_player_position(LoopKeys)
    \/ \E smart \in BOOLEAN, n \in 0..MaxInterval, pre \in BOOLEAN,
          post \in BOOLEAN, onk \in BOOLEAN :
          initialize(smart, n, pre, post, onk, 1)
    \/ quit
    \/ start
    \/ While
    \/ HookReturn
    \/ Kbhit(LoopBytes)
    \/ Update
    \/ Sleep
    \/ Increment

Spec == Init /\ [][Next]_vars

----------------------------------------------------------------------------
\* The board and the redraw on their own: every board, players placed
\* anywhere around it, moved, and redrawn.

InitRedraw == InitWith(Boards)

NextRedraw ==
    \/ Construct
    \/ add_player(Glyphs, Places(board), {DefaultKeys})
    \/ Redraw
    \/ _original_as_string

SpecRedraw == InitRedraw /\ [][NextRedraw]_vars

----------------------------------------------------------------------------
\* The read of the key on its own: a game without players, with or
\* without an on_key hook, and every byte waiting.

InitInput == InitWith(LoopBoards)

NextInput ==
    \/ Construct
    \/ \E onk \in BOOLEAN : initialize(TRUE, 0, FALSE, FALSE, onk, 0)
    \/ quit
    \/ start
    \/ While
    \/ HookReturn
    \/ Kbhit(Bytes)
    \/ Update
    \/ Sleep
    \/ Increment

SpecInput == InitInput /\ [][NextInput]_vars

----------------------------------------------------------------------------
\* Vocabulary of the properties of the redraw

\* The largest row index and the largest index within a row, of the grid
\* the game was built from (H - 1 and W - 1 on an H x W grid).
MaxRow == Len(given) - 1
MaxCol == Len(given[1]) - 1

\* The row of a position indexes the grid, its column indexes the row.
RowOf(pos) == pos[2]
ColOf(pos) == pos[1]

RowIn(pos) == 0 <= RowOf(pos) /\ RowOf(pos) <= MaxRow
ColIn(pos) == 0 <= ColOf(pos) /\ ColOf(pos) <= MaxCol
InBounds(pos) == RowIn(pos) /\ ColIn(pos)

\* A redraw has just been made; last.pre holds the players before it.
AfterRedraw == stage = "game" /\ last.op = "redraw"

\* The redraw's loop got to player i: no earlier player raised.
Reached(i) == i <= Len(last.drawn) + 1

\* The working grid shows, at position pos, the glyph of player i or of a
\* player drawn after it.
ShownAt(i, pos) ==
    /\ InBounds(pos)
    /\ heap[board.board][RowOf(pos) + 1][ColOf(pos) + 1]
           \in {Players[j].char : j \in i..Len(Players)}

\* The coordinate nearest to v among 0..m.
Pin(v, m) == IF v > m THEN m ELSE IF v < 0 THEN 0 ELSE v

\* C1: on a rectangular board, every player whose stored position lies
\* outside the board, on one axis or on both, has a stored position inside
\* the board after one redraw.
C1_OutsideIsInsideAfterOneRedraw ==
    (AfterRedraw /\ Rectangular(given)) =>
        \A i \in 1..Len(Players) :
            ~InBounds(last.pre[i].pos) => InBounds(Players[i].pos)

\* C7 as stated: the order is column-high, row-high, column-low, row-low, so
\* a player beyond the last column and beyond the last row has its column
\* corrected, and nothing else.
C7_ColumnHighFirst ==
    (AfterRedraw /\ Rectangular(given)) =>
        \A i \in 1..Len(Players) :
            LET pre == last.pre[i].pos
            IN  (ColOf(pre) > MaxCol /\ RowOf(pre) > MaxRow) =>
                    Players[i].pos = << MaxCol, RowOf(pre) >>

\* The one correction the order row-high, column-high, row-low, column-low
\* makes to a position.
RowHighFirst(pos) ==
    IF RowOf(pos) > MaxRow THEN << ColOf(pos), MaxRow >>
    ELSE IF ColOf(pos) > MaxCol THEN << MaxCol, RowOf(pos) >>
    ELSE IF RowOf(pos) < 0 THEN << ColOf(pos), 0 >>
    ELSE IF ColOf(pos) < 0 THEN << 0, RowOf(pos) >>
    ELSE pos

\* C7, amended: a redraw applies at most one correction to each player it
\* gets to, chosen in the order row-high, column-high, row-low, column-low:
\* a player beyond the last row and beyond the last column has its row
\* corrected and its column left as it was. Players the redraw does not get
\* to, an earlier one having raised, are not corrected.
C7_RowHighFirst ==
    AfterRedraw =>
        \A i \in 1..Len(Players) :
            Players[i].pos =
                IF Reached(i) THEN RowHighFirst(last.pre[i].pos) ELSE last.pre[i].pos

\* C7's case: on a board that is not square, a player beyond both the last
\* row and the last column was redrawn, and its row is the one corrected.
C7_Witness ==
    /\ AfterRedraw
    /\ MaxRow # MaxCol
    /\ \E i \in 1..Len(Players) :
          /\ RowOf(last.pre[i].pos) > MaxRow
          /\ ColOf(last.pre[i].pos) > MaxCol
          /\ Players[i].pos = << ColOf(last.pre[i].pos), MaxRow >>

\* Exactly one coordinate of pos is outside the board.
OneAxisOut(pos) == RowIn(pos) # ColIn(pos)

\* C8: a player out of bounds on exactly one axis has, after one redraw,
\* that coordinate at the largest index of the axis (from above) or at 0
\* (from below), the other coordinate as before, the corrected position
\* stored on the player, and its glyph drawn at the corrected cell.
C8_OneAxisIsPinnedAndDrawn ==
    (AfterRedraw /\ Rectangular(given)) =>
        \A i \in 1..Len(Players) :
            LET pre == last.pre[i].pos
            IN  OneAxisOut(pre) =>
                    /\ Players[i].pos = << Pin(ColOf(pre), MaxCol), Pin(RowOf(pre), MaxRow) >>
                    /\ ShownAt(i, Players[i].pos)

\* C8 for the players a redraw gets to: what the clamp does when no earlier
\* player has stopped the redraw.
OneAxisIsPinnedWhenReached ==
    (AfterRedraw /\ Rectangular(given)) =>
        \A i \in 1..Len(Players) :
            LET pre == last.pre[i].pos
            IN  (OneAxisOut(pre) /\ Reached(i)) =>
                    /\ Players[i].pos = << Pin(ColOf(pre), MaxCol), Pin(RowOf(pre), MaxRow) >>
                    /\ ShownAt(i, Players[i].pos)
                    /\ last.err = "none" \/ i <= Len(last.drawn)

\* C10: no game is built from a grid whose rows differ in length.
C10_RaggedBoardIsRejected ==
    stage = "game" => Rectangular(given)

----------------------------------------------------------------------------
\* Moving and redrawing: one player on the largest board, with each kind of
\* key bindings, moved by every key any number of times between redraws,
\* while the caller may write to the list it passed.

InitMove == InitWith({Rect(MaxH, MaxW)})

Corners(b) == {<< 0, 0 >>, << b.y, b.x >>}

NextMove ==
    \/ Construct
    \/ CallerWritesBoard
    \/ add_player(LoopGlyphs, Corners(board), {DefaultKeys, SetKeys, ClashKeys})
    \/ change_player_position(Keys)
    \/ Redraw

SpecMove == InitMove /\ [][NextMove]_vars

\* C2: a redraw never fails because of where a player is: it raises no
\* indexing error and writes the glyph of every player into a cell.
C2_RedrawNeverRaises ==
    AfterRedraw => (last.err = "none" /\ Len(last.drawn) = Len(Players))

\* Symbol k is bound to direction binding b: it is the str given for the
\* direction, or a member of the collection given for it.
Bound(k, b) == IF b.kind = "str" THEN k = b.v ELSE k \in b.v

BoundAnywhere(k, p) ==
    Bound(k, p.up) \/ Bound(k, p.down) \/ Bound(k, p.left) \/ Bound(k, p.right)

AfterMove == stage = "game" /\ last.op = "change_player_position"

\* C6: a symbol in none of the player's four key-sets is Ignored (-1) and
\* leaves the position as it was.
C6_UnboundKeyIsIgnored ==
    AfterMove =>
        (~BoundAnywhere(last.key, last.pre[last.who]) =>
            /\ last.res = -1
            /\ Players[last.who].pos = last.pre[last.who].pos)

\* The cells of the working grid g that no glyph was written to in the last
\* redraw are those of the grid given at construction.
CleanOutside(g, drawn) ==
    /\ Len(g) = Len(given)
    /\ \A r \in 1..Len(g) :
          /\ Len(g[r]) = Len(given[r])
          /\ \A c \in 1..Len(g[r]) :
                (\A k \in 1..Len(drawn) : drawn[k] # << r, c >>) => g[r][c] = given[r][c]

\* C9: whatever was added, moved and redrawn, the baseline is the grid given
\* at construction and is not the object the glyphs are written to; every
\* redraw starts from a grid equal to the one given, so a frame shows
\* glyphs only where that redraw wrote them.
C9_BaselineIsKept ==
    stage = "game" =>
        /\ heap[board._copy] = given
        /\ board._copy # board.board
        /\ board._copy # "arg"
        /\ AfterRedraw => CleanOutside(heap[board.board], last.drawn)

\* C9's case: the frame before showed the player's glyph at a cell that the
\* frame just drawn shows as it was given, the player having left it.
C9_Witness ==
    /\ AfterRedraw
    /\ last.err = "none"
    /\ heap["arg"] # given
    /\ \E r \in 1..Len(given) : \E c \in 1..Len(given[r]) :
          /\ last.before[r][c] = "A"
          /\ heap[board.board][r][c] = given[r][c]
    /\ \E r \in 1..Len(given) : \E c \in 1..Len(given[r]) :
          heap[board.board][r][c] = "A"

----------------------------------------------------------------------------
\* Properties of the frame loop

\* The redraw decision of an iteration has just been taken; last holds what
\* it saw (the iteration, the modes, the flag, what marked the game dirty
\* since the last redraw) and whether it redrew.
AfterUpdate == last.op = "update"

\* C3 as stated: in smart updating an iteration redraws iff
\* change_player_position was called since the last redraw.
C3_RedrawIffMoved ==
    (AfterUpdate /\ last.smart) => (last.redrew <=> last.marked)

\* C3, amended: in smart updating an iteration redraws iff initialize or
\* change_player_position was called since the last redraw, and the redraw
\* clears the flag, so that iterations in which neither is called do not
\* redraw.
C3_RedrawIffDirtied ==
    (AfterUpdate /\ last.smart) =>
        /\ last.redrew <=> (last.marked \/ last.inited)
        /\ last.redrew <=> last.pending
        /\ (last.redrew /\ last.err = "none") => ~_pending_update

\* C3's case: a later iteration of a smart-updating run did not redraw,
\* nothing having been called since the redraw before it.
C3_Witness ==
    /\ AfterUpdate
    /\ last.smart
    /\ last.it > 0
    /\ ~last.redrew
    /\ ~last.marked
    /\ ~last.inited

\* C4: in interval updating with the interval n that initialize was given,
\* iteration i redraws exactly when i mod n = 0.
C4_RedrawEveryNth ==
    (AfterUpdate /\ ~last.smart /\ last.n >= 1) =>
        (last.redrew <=> (last.it % last.n = 0))

\* C5: change_player_position returns with the dirty flag set, whatever it
\* returns, and in smart updating a call since the last redraw makes the
\* next redraw decision redraw.
C5_MoveMarksDirty ==
    /\ AfterMove => _pending_update
    /\ (AfterUpdate /\ last.smart /\ last.marked) => last.redrew

\* C5's case: in smart updating, with the flag clear, a hook's call was
\* Ignored and the flag is set.
C5_Witness ==
    /\ AfterMove
    /\ last.res = -1
    /\ ~last.was
    /\ smart_updating
    /\ pc \in HookPcs
    /\ _pending_update

----------------------------------------------------------------------------
\* Properties of the movement

\* The four deltas, as changes of (column, row).
DeltaUp    == << 0, -1 >>
DeltaDown  == << 0, 1 >>
DeltaLeft  == << -1, 0 >>
DeltaRight == << 1, 0 >>

\* What the last call of change_player_position added to the position.
Moved == << Players[last.who].pos[1] - last.pre[last.who].pos[1],
            Players[last.who].pos[2] - last.pre[last.who].pos[2] >>

\* The key of the last call is matched by some direction of its player.
Matched ==
    LET p == last.pre[last.who]
    IN  In(last.key, p.up) \/ In(last.key, p.left) \/ In(last.key, p.down)
            \/ In(last.key, p.right)

\* C11 as stated: the directions are tested in the order up, left, down,
\* right and the delta of the first match alone is applied.
C11_UpLeftDownRight ==
    (AfterMove /\ Matched) =>
        LET p == last.pre[last.who]
        IN  Moved = IF In(last.key, p.up) THEN DeltaUp
                    ELSE IF In(last.key, p.left) THEN DeltaLeft
                    ELSE IF In(last.key, p.down) THEN DeltaDown
                    ELSE DeltaRight

\* C11, amended: the directions are tested in the order left, right, up,
\* down and the delta of the first match alone is applied: a symbol bound
\* to both up and left moves the player left, one bound to both left and
\* right moves it left, one bound to both down and right moves it right.
C11_LeftRightUpDown ==
    (AfterMove /\ Matched) =>
        LET p == last.pre[last.who]
        IN  /\ last.res = 0
            /\ Moved = IF In(last.key, p.left) THEN DeltaLeft
                       ELSE IF In(last.key, p.right) THEN DeltaRight
                       ELSE IF In(last.key, p.up) THEN DeltaUp
                       ELSE DeltaDown

\* C11's case: a symbol bound to both up and left was sent, and the player
\* moved left.
C11_Witness ==
    /\ AfterMove
    /\ In(last.key, last.pre[last.who].up)
    /\ In(last.key, last.pre[last.who].left)
    /\ Moved = DeltaLeft

----------------------------------------------------------------------------
\* Properties of the life of the game

\* Stopped: quit was called and initialize has not been called since.
\* Running: the flag the loop condition reads is set.
Stopped == since.stopped

Running == _active

\* start() has just evaluated its loop condition and entered an iteration.
Entered == last.op = "while" /\ last.entered

\* C12: Stopped is terminal: once quit() has been called on a game, no later
\* call (initialize, start, quit, or a hook) makes the game Running again.
C12_StoppedIsTerminal == [][Stopped => ~Running']_vars

\* C12, amended: Stopped lasts until initialize is called again. A stopped
\* game is not Running, start() enters no iteration of it, and the only step
\* that makes it Running again is a call of initialize.
C12_StoppedUntilInitialize ==
    /\ [](Stopped => ~Running)
    /\ [](Entered => (Running /\ ~Stopped))
    /\ [][(Stopped /\ Running') => last'.op = "initialize"]_vars

\* C12's case: initialize was called on a game that quit had stopped, and the
\* game is Running.
C12_Witness == last.op = "initialize" /\ last.wasStopped /\ Running

\* quit has left no hook, no delay and no update mode configured.
Cleared ==
    /\ ~preupdate /\ ~postupdate /\ ~on_key
    /\ delay = 0
    /\ ~smart_updating /\ interval_updating = 0

\* A hook of the iteration that is running has called quit.
QuitInIteration == pc # "caller" /\ since.quitIn

\* start() returns only from its loop condition, and only when the flag is
\* not set there: no other step of the iteration reads the flag.
ReturnsAtCondition ==
    [][(pc # "caller" /\ pc' = "caller") => (pc = "while" /\ ~Running)]_vars

----------------------------------------------------------------------------
\* Properties of the order of an iteration

\* The steps that may follow each step of start(): a hook may make calls
\* before it returns, a read of the key or a redraw may raise, and the loop
\* condition may end the loop.
Following(step) ==
    CASE step = "while" -> {"preupdate", "kbhit", "caller"}
      [] step = "preupdate" -> {"preupdate", "kbhit"}
      [] step = "kbhit" -> {"on_key", "update", "raised"}
      [] step = "on_key" -> {"on_key", "update"}
      [] step = "update" -> {"postupdate", "sleep", "raised"}
      [] step = "postupdate" -> {"postupdate", "sleep"}
      [] step = "sleep" -> {"incr"}
      [] step = "incr" -> {"while"}

InLoop == pc \notin {"caller", "raised"}

\* C14: within every iteration the steps happen in the order preupdate hook
\* (if configured), input poll and on_key hook, redraw decision and redraw,
\* postupdate hook (if configured), sleep, increment of the counter by
\* exactly 1; the counter changes at no other step, so no step of iteration
\* k+1 happens before the increment of iteration k.
C14_StepsInOrder ==
    [][InLoop =>
          /\ pc' \in Following(pc)
          /\ (pc = "while" /\ pc' # "caller") => (pc' = "preupdate" <=> preupdate)
          /\ (pc = "kbhit" /\ pc' = "on_key") => on_key
          /\ (pc = "update" /\ pc' # "raised") => (pc' = "postupdate" <=> postupdate)
          /\ iteration' = IF pc = "incr" THEN iteration + 1
                          ELSE IF pc' = "caller" THEN 0 ELSE iteration]_vars

\* C14's case: in an iteration after the first, with the other hooks
\* configured too, the postupdate hook has returned and the sleep is next.
C14_Witness ==
    /\ last.op = "return" /\ last.from = "postupdate"
    /\ pc = "sleep" /\ iteration > 0
    /\ preupdate /\ on_key

----------------------------------------------------------------------------
\* Properties of the update modes together

\* The redraw decision was made with both modes set.
BothModes == AfterUpdate /\ last.smart /\ last.n # 0

\* C15: when initialize is given both smart and interval updating, the
\* warning is given, the game becomes active all the same, and the run is one
\* of smart updating: an iteration redraws iff the dirty flag is set, also
\* when its number is a multiple of the interval.
C15_BothIsSmart ==
    /\ last.op = "initialize" =>
          /\ last.warned <=> (smart_updating /\ interval_updating # 0)
          /\ Running
    /\ BothModes => (last.redrew <=> last.pending)

\* C15's case: with both modes set and the flag clear, an iteration whose
\* number is a multiple of the interval did not redraw.
C15_Witness ==
    /\ BothModes /\ ~last.pending /\ ~last.redrew
    /\ last.it > 0 /\ last.it % last.n = 0

----------------------------------------------------------------------------
\* Properties of the input

\* The poll of the input has just been made; a key was waiting.
AfterPoll == last.op = "kbhit"

KeyWaited == AfterPoll /\ last.waiting

\* The symbol the input mapper is to give for a scan code.
ScanSymbol(code) ==
    CASE code = 72 -> K_up
      [] code = 80 -> K_down
      [] code = 77 -> K_right
      [] code = 75 -> K_left
      [] OTHER -> K_NULL

\* C16: the key is read only when a key was waiting, once; with a key
\* waiting and an on_key hook configured the hook is called with the mapped
\* symbol, whatever its kind; with no key waiting neither the read nor the
\* hook happens.
C16_ReadAndHookOnlyWhenWaiting ==
    AfterPoll =>
        /\ last.read > 0 => last.waiting
        /\ (last.waiting /\ last.hook) => (pc = "on_key" /\ key = last.key)
        /\ ~last.waiting => (last.read = 0 /\ pc = "update")

\* C17: the input mapper consumes a second byte only after the sentinel,
\* maps the scan codes 72, 80, 77, 75 to up, down, right, left and every
\* other scan code to the null symbol, and returns every other first byte as
\* a symbol of one character; it never raises.
C17_InputMapping ==
    KeyWaited =>
        /\ Len(last.bytes) = IF last.bytes[1] = Sentinel THEN 2 ELSE 1
        /\ last.err = "none"
        /\ last.key = IF last.bytes[1] = Sentinel
                      THEN ScanSymbol(last.bytes[2])
                      ELSE << Chr[last.bytes[1]] >>

----------------------------------------------------------------------------
\* Properties of the text of the board

\* _original_as_string has just returned last.text, for a game built from a
\* rectangular grid.
AfterRender == last.op = "_original_as_string" /\ Rectangular(given)

\* The text holds the cells of the grid given at construction, row after
\* row, each row's characters next to each other and one place left after
\* each row.
CellsOfGiven(text) ==
    \A r \in 1..Len(given) : \A c \in 1..Len(given[1]) :
        text[(r - 1) * (Len(given[1]) + 1) + c] = given[r][c]

\* The place after row r holds a newline.
NewlineAfter(text, r) == text[r * (Len(given[1]) + 1)] = "\n"

\* C18: the text of the reset grid is the grid given at construction, each
\* row's characters joined with no separator, a newline between rows only,
\* and no glyph.
C18_NewlineBetweenRows ==
    AfterRender =>
        /\ Len(last.text) = Len(given) * (Len(given[1]) + 1) - 1
        /\ CellsOfGiven(last.text)
        /\ \A r \in 1..(Len(given) - 1) : NewlineAfter(last.text, r)

\* C18, amended: the text of the reset grid is the grid given at
\* construction, each row's characters joined with no separator and every
\* row, the last one too, followed by a newline; it holds no glyph.
C18_NewlineAfterEachRow ==
    AfterRender =>
        /\ Len(last.text) = Len(given) * (Len(given[1]) + 1)
        /\ CellsOfGiven(last.text)
        /\ \A r \in 1..Len(given) : NewlineAfter(last.text, r)

\* C18's case: the text of a board of more than one row and more than one
\* column was asked for while the grid on display shows a glyph.
C18_Witness ==
    /\ AfterRender
    /\ Len(given) > 1 /\ Len(given[1]) > 1
    /\ \E r \in 1..Len(given) : \E c \in 1..Len(given[1]) :
          heap[board.board][r][c] \in {Glyphs[k] : k \in 1..Len(Glyphs)}

----------------------------------------------------------------------------
\* Properties of the order of the players

\* The place of the working grid that the stored position of player k names.
PlaceOf(k) ==
    << RowPlace(heap[board.board], Players[k].pos),
       CellPlace(heap[board.board], Players[k].pos) >>

\* No player after the k-th wrote to the place the k-th wrote to.
LastAt(k) == \A j \in (k + 1)..Len(last.drawn) : last.drawn[j] # last.drawn[k]

\* The stored position of player k is its own position before the redraw
\* with each coordinate kept or brought to the nearest edge of the board.
OwnClamp(k) ==
    /\ Players[k].pos[1] \in {last.pre[k].pos[1], Pin(last.pre[k].pos[1], board.y)}
    /\ Players[k].pos[2] \in {last.pre[k].pos[2], Pin(last.pre[k].pos[2], board.x)}
    /\ (~Reached(k) \/ InBounds(last.pre[k].pos)) => Players[k].pos = last.pre[k].pos

\* C19: a redraw clamps and draws the players in the order they were added:
\* the k-th place written is that of the k-th player; a place that several
\* players were drawn on shows the glyph of the one added last; and the
\* stored position of a player changes by its own clamping only.
C19_DrawnInAddOrder ==
    AfterRedraw =>
        /\ Len(last.drawn) <= Len(Players)
        /\ last.err = "none" => Len(last.drawn) = Len(Players)
        /\ \A k \in 1..Len(last.drawn) :
              /\ last.drawn[k] = PlaceOf(k)
              /\ LastAt(k) =>
                    heap[board.board][last.drawn[k][1]][last.drawn[k][2]] = Players[k].char
        /\ \A k \in 1..Len(Players) : OwnClamp(k)

\* C19's case: the first player was outside the board and was clamped to the
\* cell the second player stands on, and the grid shows the second's glyph.
C19_Witness ==
    /\ AfterRedraw
    /\ Len(last.drawn) = 2
    /\ last.drawn[1] = last.drawn[2]
    /\ last.pre[1].pos # Players[1].pos
    /\ last.pre[2].pos = Players[2].pos
    /\ heap[board.board][last.drawn[2][1]][last.drawn[2][2]] = Players[2].char

----------------------------------------------------------------------------
\* Properties of quit from a hook

\* The redraw decision has just been taken in an iteration in which a
\* preupdate or on_key hook had called quit; last holds the mode and the
\* flag that quit found.
QuitBeforeUpdate == AfterUpdate /\ last.quit

\* C20: quit() from a preupdate or on_key hook causes no redraw that the
\* configured mode would not have made: when quit found smart updating with
\* the dirty flag clear, and nothing was called after it, the iteration does
\* not redraw.
C20_QuitAddsNoRedraw ==
    (QuitBeforeUpdate /\ last.wasSmart /\ ~last.wasDirty /\ ~last.pending) =>
        ~last.redrew

====
